---- MODULE Spec2Model ----
(***************************************************************************)
(* Mirror256 (src/mirror_hash/mirror.py): the hasher objects, the class    *)
(* variable _last_hashes they share, and the calls a client can make       *)
(* (construction, update, digest, hexdigest).                              *)
(*                                                                         *)
(* Text is a sequence of Unicode code points, bytes a sequence of 0..255,  *)
(* a block or a layer key a sequence of nibbles 0..15.  Python's 0-based   *)
(* index i is the 1-based index i + 1 here.                                *)
(***************************************************************************)
EXTENDS Integers, Sequences, FiniteSets, TLC

(***************************************************************************)
(* Bounds of the model.                                                    *)
(***************************************************************************)
MaxHashers == 2
MaxCalls == 2

(***************************************************************************)
(* Program constants.                                                      *)
(***************************************************************************)
DEFAULT_DEPTH == 128
DEFAULT_SIZE == 256
TOFFOLI == 0
FREDKIN == 1
REGULAR == 0
MIRRORED == 1
ChunkLen == 32
PadByte == 65

\* format(cr, 'x') of every entry of the table: its hexadecimal digits.
FIRST_PRIMES_CUBIC_ROOT_DEC_REP ==
    << <<10,5,4,13,13,13,3,5,11,5>>, <<13,4,8,14,15,0,5,8,11,4>>, <<3,4,2,6,4,0,15,4,12,9>>, <<5,1,12,13,2,13,14,3,14,9>>,
       <<8,5,0,3,0,9,4,9,8,2>>, <<9,11,9,15,13,7,12,4,5,2>>, <<12,4,7,10,6,4,3,14,0,12>>, <<10,8,6,0,2,15,14,3,5,10>>,
       <<2,0,14,10,15,1,8,13,6,7>>, <<4,13,5,9,15,7,2,7,15,14>>, <<6,8,5,11,13,4,5,3,3,15>>, <<7,5,3,4,13,12,13,1,6,3>>,
       <<8,13,12,0,13,12,11,11,8,11>>, <<11,0,1,6,2,4,12,11,6,13>>, <<12,15,14,10,11,11,15,1,8,1>>, <<13,10,0,11,9,4,15,9,7,14>>,
       <<8,15,4,13,8,6,13,1,10,9>>, <<2,0,12,9,6,4,5,5,10,15>>, <<2,9,12,1,7,2,15,7,13,13>>, <<4,3,11,7,7,0,11,10,1,2>>,
       <<5,4,4,13,1,8,0,0,5,15>>, <<6,12,3,4,15,7,6,1,10,1>>, <<8,10,7,6,14,15,7,8,2,15>>, <<9,8,15,8,13,1,7,13,13,12>>,
       <<10,0,1,5,1,0,2,7,12,6>>, <<10,14,0,8,0,13,4,11,7,11>>, <<11,4,14,0,3,12,9,9,2,11>>, <<12,2,5,1,5,4,2,15,8,8>>,
       <<3,13,12,2,8,11,14,5,2,15>>, <<11,7,5,12,7,14,1,2,8,15>>, <<2,4,1,14,13,14,11,8,15,4>>, <<4,3,1,7,13,0,7,11,2>>,
       <<4,6,3,0,5,14,3,10,3,13>>, <<4,11,10,15,14,11,14,12,14,15>>, <<9,3,0,8,10,3,11,6,11>>, <<6,11,11,2,7,5,14,4,5,1>>,
       <<7,6,0,4,4,15,4,11,3,3>>, <<8,5,3,1,1,13,5,2,3,7>>, <<9,4,0,5,1,10,10,14,11,0>>, <<9,8,14,3,8,14,15,4,13,15>>,
       <<11,0,11,5,13,10,3,4,8,12>>, <<11,5,5,15,13,0,4,4,10,0>>, <<11,14,9,11,3,7,2,0,6,9>>, <<12,3,2,12,14,14,10,8,0,14>>,
       <<13,13,15,7,9,9,10,1,9,3>>, <<14,14,14,4,4,4,8,4,11>>, <<1,7,5,2,9,11,15,5,4,9>>, <<1,11,7,11,5,3,4,8,9,13>>,
       <<2,3,11,10,4,13,7,4,10,0>>, <<2,15,14,11,14,15,5,10,5,0>>, <<3,3,15,0,13,11,9,0,1,6>>, <<4,7,11,5,13,8,9,7,7,7>>,
       <<5,3,5,2,3,0,4,1,5,6>>, <<5,14,12,0,9,15,1,6,2,2>>, <<6,10,0,2,14,0,10,8,3,11>>, <<10,15,9,0,2,7,12,8,8>>,
       <<7,8,12,3,15,8,7,3,10,6>>, <<8,0,0,9,4,9,6,10,1,7>>, <<8,3,10,5,5,3,7,10,13,2>>, <<9,5,7,1,5,15,4,2,1,0>>,
       <<10,13,11,0,13,14,7,7,1,9>>, <<11,4,7,11,10,11,8,7,13,1>>, <<11,7,13,11,7,11,12,3,7,5>>, <<11,14,9,0,2,2,1,14,6,9>>
    >>

\* random.seed(777) followed by successive random.randint(0, 15): the values
\* the generator returns, in order (the first 192: 3 layers of 64).
RandomStream ==
    <<
       7, 14, 14, 11, 8, 10, 1, 14, 12, 9, 3, 3, 2, 10, 3, 0, 10, 9, 8, 3, 6, 9, 4, 13,
       1, 11, 4, 2, 8, 15, 3, 14, 5, 0, 14, 8, 6, 12, 2, 12, 5, 15, 2, 12, 10, 9, 6, 3,
       5, 3, 1, 0, 15, 8, 8, 0, 5, 3, 15, 12, 3, 15, 12, 13, 12, 14, 10, 11, 1, 1, 11, 9,
       13, 4, 9, 15, 12, 0, 8, 15, 11, 15, 5, 4, 10, 2, 9, 8, 9, 13, 5, 14, 5, 2, 14, 2,
       10, 3, 12, 6, 4, 3, 9, 14, 13, 12, 1, 0, 6, 11, 4, 5, 13, 15, 11, 8, 1, 13, 15, 8,
       2, 10, 1, 8, 0, 4, 2, 2, 5, 15, 9, 6, 9, 15, 1, 10, 6, 14, 7, 12, 6, 1, 8, 12,
       8, 15, 12, 9, 13, 6, 4, 0, 0, 7, 5, 15, 12, 12, 2, 14, 15, 11, 0, 8, 6, 13, 15, 14,
       13, 14, 1, 5, 8, 9, 12, 10, 11, 10, 5, 5, 2, 10, 11, 11, 4, 5, 13, 14, 11, 9, 3, 15
    >>

(***************************************************************************)
(* Bit arithmetic on nibbles.                                              *)
(***************************************************************************)
Pow2(k) == IF k = 0 THEN 1 ELSE IF k = 1 THEN 2 ELSE IF k = 2 THEN 4 ELSE 8

BitOf(n, k) == (n \div Pow2(k)) % 2

\* a ^ b on 4-bit values
Xor4(a, b) ==
      ((BitOf(a, 0) + BitOf(b, 0)) % 2)
    + ((BitOf(a, 1) + BitOf(b, 1)) % 2) * 2
    + ((BitOf(a, 2) + BitOf(b, 2)) % 2) * 4
    + ((BitOf(a, 3) + BitOf(b, 3)) % 2) * 8

Min(a, b) == IF a < b THEN a ELSE b

\* the list with the values of f, each computed once
List(f) == f \o << >>

\* F(v) with v computed first, once: a local variable assigned v and then
\* read by the statements F stands for
Let(v, F(_)) == CHOOSE r \in { F(x) : x \in {v} } : TRUE

\* [x] * n
Rep(x, n) == List([i \in 1..n |-> x])

(***************************************************************************)
(* cubic_root_array: h is format(cr, 'x').                                 *)
(***************************************************************************)
RECURSIVE ZeroFill(_)
ZeroFill(h) == IF Len(h) < 10 THEN ZeroFill(<<0>> \o h) ELSE h

cubic_root_array(cr) ==
    LET h10 == ZeroFill(cr)
        h == SubSeq(h10, Len(h10) - 9, Len(h10) - 2)
    IN  List([i \in 1..8 |-> IF i - 1 < Len(h) THEN h[i] ELSE 0])

(***************************************************************************)
(* Key schedule initialisation: both append to the list they are given     *)
(* until it holds depth layers.                                            *)
(***************************************************************************)
RECURSIVE FillLayer(_, _, _)
FillLayer(layer, i, size) ==
    IF Len(layer) < size \div 4
    THEN FillLayer(Append(layer, (i + 1) % 16), i, size)
    ELSE layer

RECURSIVE init_standard_state(_, _, _)
init_standard_state(lh, depth, size) ==
    IF Len(lh) < depth
    THEN LET i == Len(lh)
             layer == IF i < Len(FIRST_PRIMES_CUBIC_ROOT_DEC_REP)
                      THEN FillLayer(cubic_root_array(FIRST_PRIMES_CUBIC_ROOT_DEC_REP[i + 1]), i, size)
                      ELSE List([j \in 1..(size \div 4) |-> (i + (j - 1)) % 16])
         IN  init_standard_state(Append(lh, layer), depth, size)
    ELSE lh

\* pos is the number of values drawn since random.seed(777)
RECURSIVE RandomLayers(_, _, _, _)
RandomLayers(lh, depth, size, pos) ==
    IF Len(lh) < depth
    THEN LET random_hash == List([j \in 1..(size \div 4) |-> RandomStream[pos + j]])
         IN  RandomLayers(Append(lh, random_hash), depth, size, pos + (size \div 4))
    ELSE lh

init_random_state(lh, depth, size) == RandomLayers(lh, depth, size, 0)

(***************************************************************************)
(* Codec.                                                                  *)
(***************************************************************************)
\* str.encode('utf-8') of one code point
Utf8Char(cp) ==
    IF cp < 128 THEN << cp >>
    ELSE IF cp < 2048 THEN << 192 + (cp \div 64), 128 + (cp % 64) >>
    ELSE IF cp < 65536
         THEN << 224 + (cp \div 4096), 128 + ((cp \div 64) % 64), 128 + (cp % 64) >>
         ELSE << 240 + (cp \div 262144), 128 + ((cp \div 4096) % 64),
                 128 + ((cp \div 64) % 64), 128 + (cp % 64) >>

RECURSIVE Utf8From(_, _)
Utf8From(s, i) == IF i > Len(s) THEN << >> ELSE Utf8Char(s[i]) \o Utf8From(s, i + 1)

\* str.encode('utf-8')
Utf8(s) == Utf8From(s, 1)

\* m_bytes[:32].ljust(32, b'A')
Fit32(bytes) ==
    LET cut == SubSeq(bytes, 1, Min(Len(bytes), ChunkLen))
    IN  cut \o Rep(PadByte, ChunkLen - Len(cut))

\* the 64 nibbles of 32 bytes, high nibble first
Nibbles(bytes) ==
    List([k \in 1..(2 * Len(bytes)) |->
            IF k % 2 = 1 THEN (bytes[(k + 1) \div 2] \div 16) % 16
                         ELSE bytes[k \div 2] % 16])

unpack(m) == Let(Fit32(Utf8(m)), LAMBDA m_bytes : Nibbles(m_bytes))

\* pack that returns only the bytes hm has nibbles for
pack_available(hm, size) ==
    List([k \in 1..Min(size \div 8, (Len(hm) + 1) \div 2) |->
            LET i == k - 1 IN
            (hm[(i * 2) + 1] * 16) + (IF (i * 2) + 1 < Len(hm) THEN hm[(i * 2) + 2] ELSE 0)])

pack(hm, size) ==
    List([k \in 1..(size \div 8) |->
            LET i == k - 1 IN
            IF i * 2 < Len(hm)
            THEN (hm[(i * 2) + 1] * 16) + (IF (i * 2) + 1 < Len(hm) THEN hm[(i * 2) + 2] ELSE 0)
            ELSE 0])

HexChars == << "0", "1", "2", "3", "4", "5", "6", "7",
               "8", "9", "a", "b", "c", "d", "e", "f" >>

\* binascii.hexlify
RECURSIVE hexlify(_)
hexlify(bytes) ==
    IF bytes = << >> THEN << >>
    ELSE << HexChars[(Head(bytes) \div 16) + 1], HexChars[(Head(bytes) % 16) + 1] >>
         \o hexlify(Tail(bytes))

(***************************************************************************)
(* Gate network.                                                           *)
(***************************************************************************)
get_wire(gate_index, first_sublayer, offset, size) ==
    (gate_index * 4 + offset + (IF ~first_sublayer THEN 2 ELSE 0)) % size

get_bit(block, wire) ==
    IF wire \div 4 < Len(block) THEN BitOf(block[(wire \div 4) + 1], wire % 4) ELSE 0

set_bit(block, wire, bit) ==
    IF wire \div 4 < Len(block)
    THEN LET old_nib == block[(wire \div 4) + 1]
             ret == (old_nib - (BitOf(old_nib, wire % 4) * Pow2(wire % 4)))
                    + (bit * Pow2(wire % 4))
         IN  [block EXCEPT ![(wire \div 4) + 1] = ret]
    ELSE block

\* the gate's effect on the three bit values
GateValues(gate_name, gate_symmetry, val1, val2, val3) ==
    IF gate_name = TOFFOLI /\ gate_symmetry = REGULAR /\ val1 = 1 /\ val2 = 1
    THEN << val1, val2, (val3 + 1) % 2 >>
    ELSE IF gate_name = TOFFOLI /\ gate_symmetry = MIRRORED /\ val2 = 1 /\ val3 = 1
    THEN << (val1 + 1) % 2, val2, val3 >>
    ELSE IF gate_name = FREDKIN /\ gate_symmetry = REGULAR /\ val1 = 1 /\ val2 # val3
    THEN << val1, val3, val2 >>
    ELSE IF gate_name = FREDKIN /\ gate_symmetry = MIRRORED /\ val3 = 1 /\ val1 # val2
    THEN << val2, val1, val3 >>
    ELSE << val1, val2, val3 >>

apply_gate(gate_index, gate_name, gate_symmetry, block, first_sublayer, layer, size) ==
    LET initial_offset == layer % 2
        wire1 == get_wire(gate_index, first_sublayer, initial_offset + 0, size)
        wire2 == get_wire(gate_index, first_sublayer, initial_offset + 1, size)
        wire3 == get_wire(gate_index, first_sublayer, initial_offset + 2, size)
        oval1 == get_bit(block, wire1)
        oval2 == get_bit(block, wire2)
        oval3 == get_bit(block, wire3)
        val == GateValues(gate_name, gate_symmetry, oval1, oval2, oval3)
        b1 == IF val[1] # oval1 THEN set_bit(block, wire1, val[1]) ELSE block
        b2 == IF val[2] # oval2 THEN set_bit(b1, wire2, val[2]) ELSE b1
    IN  IF val[3] # oval3 THEN set_bit(b2, wire3, val[3]) ELSE b2

(***************************************************************************)
(* Layer pass and chunk processing.                                        *)
(***************************************************************************)
\* the XOR loop: gate_index runs over range(size // 4) and acts where
\* gate_index < len(block) and gate_index < len(layer_hash)
XorLayer(block, layer_hash, size) ==
    LET n == Min(size \div 4, Min(Len(block), Len(layer_hash)))
    IN  List([k \in 1..n |-> Xor4(block[k], layer_hash[k])])
        \o SubSeq(block, n + 1, Len(block))

\* the body of "for gate_index in range(self.size // 4)" in a sublayer
GateStep(gate_index, block, layer_hash, first_sublayer, layer, size) ==
    IF gate_index < Len(layer_hash)
    THEN LET nib == layer_hash[gate_index + 1]
             gate_type == IF first_sublayer THEN nib % 4 ELSE (nib \div 4) % 4
             gate_name == gate_type % 2
             gate_symmetry == gate_type \div 2
         IN  apply_gate(gate_index, gate_name, gate_symmetry, block,
                        first_sublayer, layer, size)
    ELSE block

\* the loop for gate_index = lo .. hi - 1, in increasing order: the first
\* half of the range, then the second half on its result
RECURSIVE Gates(_, _, _, _, _, _, _)
Gates(lo, hi, block, layer_hash, first_sublayer, layer, size) ==
    IF hi <= lo THEN block
    ELSE IF hi = lo + 1
    THEN GateStep(lo, block, layer_hash, first_sublayer, layer, size)
    ELSE Let(Gates(lo, (lo + hi) \div 2, block, layer_hash, first_sublayer, layer, size),
             LAMBDA blk : Gates((lo + hi) \div 2, hi, blk, layer_hash,
                                first_sublayer, layer, size))

\* one sublayer: for gate_index in range(self.size // 4)
Sublayer(block, layer_hash, first_sublayer, layer, size) ==
    Gates(0, size \div 4, block, layer_hash, first_sublayer, layer, size)

hash_layer_pass(layer, block, last_hashes, size) ==
    LET layer_hash == last_hashes[layer + 1]
    IN  Let(XorLayer(block, layer_hash, size), LAMBDA b0 :
        Let(Sublayer(b0, layer_hash, TRUE, layer, size), LAMBDA b1 :
            Sublayer(b1, layer_hash, FALSE, layer, size)))

RECURSIVE Layers(_, _, _, _, _)
Layers(layer, block, last_hashes, depth, size) ==
    IF layer >= depth THEN block
    ELSE LET b == hash_layer_pass(layer, block, last_hashes, size)
         IN  Let(b, LAMBDA blk : Layers(layer + 1, blk, last_hashes, depth, size))

\* _mirror256_process on the text chunk m
mirror256_process(m, last_hashes, depth, size) ==
    Let(unpack(m), LAMBDA block : Layers(0, block, last_hashes, depth, size))

(***************************************************************************)
(***************************************************************************)
(* State.                                                                  *)
(*   class_last_hashes  Mirror256._last_hashes, the class variable         *)
(*   hashers            the Mirror256 objects alive, in creation order     *)
(*   hist               per hasher, what was observed of it so far         *)
(*   call               the last call made and how it ended                *)
(*   constructed        the number of constructor calls made               *)
(***************************************************************************)
VARIABLES class_last_hashes, hashers, hist, call, constructed

vars == << class_last_hashes, hashers, hist, call, constructed >>

(***************************************************************************)
(* Argument values.  A message argument is None, a str, or a value of      *)
(* another type (an int, bytes, a list), of which only its truth value     *)
(* matters to the code.                                                    *)
(***************************************************************************)
None == [kind |-> "none"]
Str(s) == [kind |-> "str", s |-> s]
Other(truthy) == [kind |-> "other", truthy |-> truthy]

\* Python's truth value of m
Truthy(m) ==
    IF m.kind = "none" THEN FALSE
    ELSE IF m.kind = "str" THEN m.s # << >>
    ELSE m.truthy

\* isinstance(m, str)
IsStr(m) == m.kind = "str"

\* x or default
OrDefault(x, default) == IF x = 0 THEN default ELSE x

\* self._last_hashes: the instance attribute once update has assigned it,
\* the class variable before
LastHashes(h, cls) == IF h.own THEN h.last_hashes ELSE cls

\* the assignment made to the class variable instead: Mirror256._last_hashes = new
AssignClassVariable(o, new) == [h |-> o.h, cls |-> new]

\* the assignment made to the instance and to the class variable
AssignBoth(o, new) ==
    [h |-> [o.h EXCEPT !.own = TRUE, !.last_hashes = new], cls |-> new]

\* self._last_hashes = new: binds the attribute on the instance, the class
\* variable keeps its value.  o = [h, cls]
AssignLastHashes(o, new) ==
    [h |-> [o.h EXCEPT !.own = TRUE, !.last_hashes = new], cls |-> o.cls]

(***************************************************************************)
(* update.                                                                 *)
(***************************************************************************)
\* the push with the slice one entry too long: [hm] + self._last_hashes[:self.depth]
PushKeepDepth(hm, last_hashes, depth) ==
    << hm >> \o SubSeq(last_hashes, 1, Min(Len(last_hashes), depth))

\* [hm] + self._last_hashes[:self.depth-1]
Push(hm, last_hashes, depth) ==
    << hm >> \o SubSeq(last_hashes, 1, Min(Len(last_hashes), depth - 1))

\* while len(self._buffer) >= 32: ...   st = [h, cls, n, log], n the number
\* of iterations and log the bytes of the chunks unpacked
RECURSIVE ConsumeChunks(_)
ConsumeChunks(st) ==
    IF Len(st.h.buffer) >= ChunkLen
    THEN LET h == st.h
             chunk == SubSeq(h.buffer, 1, ChunkLen)
             last_hashes == LastHashes(h, st.cls)
         IN  Let(mirror256_process(chunk, last_hashes, h.depth, h.size), LAMBDA hm :
             Let(AssignLastHashes([h |-> h, cls |-> st.cls],
                                  Push(hm, last_hashes, h.depth)), LAMBDA o :
             Let([h |-> [o.h EXCEPT !.buffer =
                            SubSeq(h.buffer, ChunkLen + 1, Len(h.buffer))],
                  cls |-> o.cls,
                  n |-> st.n + 1,
                  log |-> Append(st.log, Fit32(Utf8(chunk)))], LAMBDA st1 :
             ConsumeChunks(st1))))
    ELSE st

\* self._buffer + 'A' * (32 - len(self._buffer))
Padded(buffer) == buffer \o Rep(PadByte, ChunkLen - Len(buffer))

\* h.update(m): the hasher and the class variable afterwards, whether
\* TypeError was raised, and what was observed
update(h, cls, m) ==
    IF ~Truthy(m)
    THEN [h |-> h, cls |-> cls, raised |-> FALSE, n |-> 0, log |-> << >>]
    ELSE IF ~IsStr(m)
    THEN [h |-> h, cls |-> cls, raised |-> TRUE, n |-> 0, log |-> << >>]
    ELSE
      Let(ConsumeChunks([h |-> [h EXCEPT !.buffer = h.buffer \o m.s,
                                         !.counter = h.counter + Len(m.s)],
                         cls |-> cls, n |-> 0, log |-> << >>]), LAMBDA st :
      LET rest == st.h.buffer # << >> \/ m.s = << >>
          padded == Padded(st.h.buffer)
      IN  [h |-> IF rest
                 THEN [st.h EXCEPT !.hashed =
                          mirror256_process(padded, LastHashes(st.h, st.cls),
                                            h.depth, h.size)]
                 ELSE st.h,
           cls |-> st.cls,
           raised |-> FALSE,
           n |-> st.n,
           log |-> IF rest THEN Append(st.log, Fit32(Utf8(padded))) ELSE st.log])

digest(h) == pack(h.hashed, h.size)

hexdigest(h) == << "0", "x" >> \o hexlify(digest(h))

(***************************************************************************)
(* __init__.                                                               *)
(***************************************************************************)
\* the class variable after "Initialize the state"
InitState(cls, depth, size, use_standard_state) ==
    IF Len(cls) < depth
    THEN IF use_standard_state
         THEN init_standard_state(cls, depth, size)
         ELSE init_random_state(cls, depth, size)
    ELSE cls

\* the object before "Process initial message if provided"
NewHasher(depth, size) ==
    [buffer |-> << >>, counter |-> 0, depth |-> depth, size |-> size,
     hashed |-> << >>, own |-> FALSE, last_hashes |-> << >>]

\* the key schedule h works with: the entries its layers 0 .. depth-1 read
KeySchedule(h, cls) ==
    LET lh == LastHashes(h, cls) IN SubSeq(lh, 1, Min(Len(lh), h.depth))

(***************************************************************************)
(* Inputs of the model.  A size argument of 0 is the default, None; the    *)
(* depth argument is always given, so that a chunk costs at most 2 * 192   *)
(* gate steps and not the 128 * 192 of the default depth.                  *)
(***************************************************************************)
Depths == {1, 2}
Sizes == {8, 40}
Configs == Depths \X (Sizes \cup {0})
SharedConfigs == {<< 1, 8 >>, << 2, 40 >>}
a16 == Rep(97, 16)
a32 == Rep(97, 32)
a33 == Rep(97, 33)
e17 == Rep(233, 17)
Texts == { << >>, a16, a32, a33, e17 }
Args == {Str(s) : s \in Texts} \cup {Other(FALSE), Other(TRUE)}
SharedArgs == {Str(a33)}

(***************************************************************************)
(* Actions.                                                                *)
(***************************************************************************)
Init ==
    /\ class_last_hashes = << >>
    /\ hashers = << >>
    /\ hist = << >>
    /\ call = [op |-> "none", target |-> 0, arg |-> None, raised |-> FALSE]
    /\ constructed = 0

\* the pushes the first k hashers have made
RECURSIVE PushesSoFar(_, _)
PushesSoFar(hs, k) == IF k = 0 THEN 0 ELSE hs[k].pushes + PushesSoFar(hs, k - 1)

\* the update calls made on the first k hashers, the constructor's included
RECURSIVE CallsSoFar(_, _)
CallsSoFar(hs, k) == IF k = 0 THEN 0 ELSE hs[k].calls + CallsSoFar(hs, k - 1)

\* Mirror256(m, depth, size, use_standard_state)
Construct(m, depth_arg, size_arg, use_standard_state) ==
    LET depth == OrDefault(depth_arg, DEFAULT_DEPTH)
        size == OrDefault(size_arg, DEFAULT_SIZE)
        h0 == NewHasher(depth, size)
        raises == m # None /\ ~IsStr(m)
    IN  /\ IsStr(m) => CallsSoFar(hist, Len(hist)) < MaxCalls
        /\ \E cls \in {InitState(class_last_hashes, depth, size, use_standard_state)} :
           \E r \in {IF m # None /\ IsStr(m) THEN update(h0, cls, m)
                     ELSE [h |-> h0, cls |-> cls, raised |-> FALSE,
                           n |-> 0, log |-> << >>]} :
              /\ constructed' = constructed + 1
              /\ class_last_hashes' = r.cls
              /\ call' = [op |-> "init",
                          target |-> IF raises THEN 0 ELSE Len(hashers) + 1,
                          arg |-> m, raised |-> raises]
              /\ IF raises
                 THEN UNCHANGED << hashers, hist >>
                 ELSE /\ hashers' = Append(hashers, r.h)
                      /\ hist' = Append(hist,
                             [std |-> use_standard_state, m0 |-> m,
                              sched0 |-> SubSeq(cls, 1, depth),
                              digest0 |-> digest(r.h),
                              calls |-> IF m = None THEN 0 ELSE 1,
                              fed |-> IF m = None THEN << >> ELSE << m.s >>,
                              pushes |-> r.n, chunks |-> r.log,
                              prior |-> PushesSoFar(hist, Len(hist))])

\* hashers[i].update(m)
Update(i, m) ==
    /\ CallsSoFar(hist, Len(hist)) < MaxCalls
    /\ \E r \in {update(hashers[i], class_last_hashes, m)} :
        /\ hashers' = [hashers EXCEPT ![i] = r.h]
        /\ class_last_hashes' = r.cls
        /\ call' = [op |-> "update", target |-> i, arg |-> m, raised |-> r.raised]
        /\ hist' = [hist EXCEPT
                      ![i].calls = @ + 1,
                      ![i].fed = IF IsStr(m) THEN Append(@, m.s) ELSE @,
                      ![i].pushes = @ + r.n,
                      ![i].chunks = @ \o r.log]
        /\ UNCHANGED constructed

\* The process: up to MaxHashers constructor calls, for one layer of size 8
\* or two layers of size 40 and either mode, and up to MaxCalls update calls
\* with a message that spans a full chunk and a remainder.
Next ==
    \/ \E m \in SharedArgs \cup {None, Other(TRUE)},
          c \in SharedConfigs, std \in BOOLEAN :
          constructed < MaxHashers /\ Construct(m, c[1], c[2], std)
    \/ \E i \in 1..Len(hashers), m \in SharedArgs : Update(i, m)

Spec == Init /\ [][Next]_vars

\* One hasher's life: every kind of argument, to the constructor and to
\* update, up to MaxCalls update calls.
NextHasher ==
    \/ \E m \in Args \cup {None}, c \in Configs, std \in BOOLEAN :
          constructed < 1 /\ Construct(m, c[1], c[2], std)
    \/ \E i \in 1..Len(hashers), m \in Args : Update(i, m)

SpecHasher == Init /\ [][NextHasher]_vars

(***************************************************************************)
(* The gate network called on Blocks directly: _apply_gate,                *)
(* _hash_layer_pass and the layer loop of _mirror256_process are methods   *)
(* of a hasher and read its size, its depth and its key schedule.  A Block *)
(* is what _unpack returns, 64 nibbles.                                    *)
(***************************************************************************)
Nibble == 0..15

\* the Block of a chunk that is all padding
PaddingBlock == unpack(<< >>)

\* the nibble that holds the first wire of gate gate_index, and the nibble
\* that holds the wires a second-sublayer gate reaches beyond it
GateNibble(gate_index) == gate_index
NextNibble(gate_index, size) == ((gate_index * 4 + 4) % size) \div 4

\* the padding Block with nibble u where gate gate_index starts and nibble v
\* where it ends, as far as the Block holds these nibbles
ProbeBlock(gate_index, size, u, v) ==
    LET p == GateNibble(gate_index)
        q == NextNibble(gate_index, size)
        b1 == IF p < Len(PaddingBlock) THEN [PaddingBlock EXCEPT ![p + 1] = u]
              ELSE PaddingBlock
    IN  IF q < Len(b1) THEN [b1 EXCEPT ![q + 1] = v] ELSE b1

\* the gates probed in a sublayer of size // 4 gates: the first, the last
\* that starts inside a Block, and the last
ProbeGates(size) == {0, Min(size \div 4, Len(PaddingBlock)) - 1, (size \div 4) - 1}

\* Blocks that differ in the nibble where the last gate inside a Block starts
PairBlock(size, u) == ProbeBlock(Min(size \div 4, Len(PaddingBlock)) - 1, size, u, 1)

\* depth, size and use_standard_state of the hashers probed: the smallest
\* size, a size with a random schedule, the default size, and a size above
\* the default with the standard schedule up to its layer 4
NetworkSetups ==
    {<< 1, 8, TRUE >>, << 2, 40, FALSE >>, << 1, 0, TRUE >>, << 5, 264, TRUE >>}

\* hashers[i]._apply_gate(...) on block, and once more on the result
ApplyGate(i, gate_index, gate_name, gate_symmetry, first_sublayer, layer, block) ==
    \E out \in {apply_gate(gate_index, gate_name, gate_symmetry, block,
                           first_sublayer, layer, hashers[i].size)} :
    \E back \in {apply_gate(gate_index, gate_name, gate_symmetry, out,
                            first_sublayer, layer, hashers[i].size)} :
        /\ call' = [op |-> "apply_gate", target |-> i, arg |-> None,
                    raised |-> FALSE,
                    gate |-> << gate_index, gate_name, gate_symmetry,
                                first_sublayer, layer >>,
                    block |-> block, out |-> out, back |-> back]
        /\ UNCHANGED << class_last_hashes, hashers, hist, constructed >>

\* hashers[i]._hash_layer_pass(layer, x) and hashers[i]._hash_layer_pass(layer, y)
HashLayerPass(i, layer, x, y) ==
    LET h == hashers[i]
        last_hashes == LastHashes(h, class_last_hashes)
    IN  \E fx \in {hash_layer_pass(layer, x, last_hashes, h.size)} :
        \E fy \in {hash_layer_pass(layer, y, last_hashes, h.size)} :
            /\ call' = [op |-> "hash_layer_pass", target |-> i, arg |-> None,
                        raised |-> FALSE, layer |-> layer,
                        x |-> x, y |-> y, fx |-> fx, fy |-> fy]
            /\ UNCHANGED << class_last_hashes, hashers, hist, constructed >>

\* the layer loop of hashers[i]._mirror256_process on the Blocks x and y
Mirror256Process(i, x, y) ==
    LET h == hashers[i]
        last_hashes == LastHashes(h, class_last_hashes)
    IN  \E fx \in {Layers(0, x, last_hashes, h.depth, h.size)} :
        \E fy \in {Layers(0, y, last_hashes, h.depth, h.size)} :
            /\ call' = [op |-> "mirror256_process", target |-> i, arg |-> None,
                        raised |-> FALSE,
                        x |-> x, y |-> y, fx |-> fx, fy |-> fy]
            /\ UNCHANGED << class_last_hashes, hashers, hist, constructed >>

\* the last call was the constructor or update: the network methods change
\* no attribute, so a call after a network call reaches nothing that the
\* same call before it does not
HasherCalled == call.op \in {"init", "update"}

\* One hasher, its key schedule initial or pushed by up to MaxCalls update
\* calls, and the gate network of that hasher called on Blocks.
NextNetwork ==
    \/ \E c \in NetworkSetups :
          constructed < 1 /\ Construct(None, c[1], c[2], c[3])
    \/ \E i \in 1..Len(hashers) : HasherCalled /\ Update(i, Str(a33))
    \/ \E i \in 1..Len(hashers), first_sublayer \in BOOLEAN,
          gate_name \in {TOFFOLI, FREDKIN}, gate_symmetry \in {REGULAR, MIRRORED} :
          /\ HasherCalled
          /\ \E gate_index \in ProbeGates(hashers[i].size),
                layer \in 0..(Min(hashers[i].depth, 2) - 1),
                u \in Nibble, v \in 0..3 :
                ApplyGate(i, gate_index, gate_name, gate_symmetry, first_sublayer,
                          layer, ProbeBlock(gate_index, hashers[i].size, u, v))
    \/ \E i \in 1..Len(hashers), u \in Nibble, v \in Nibble :
          /\ HasherCalled /\ u < v
          /\ \E layer \in 0..(hashers[i].depth - 1) :
                HashLayerPass(i, layer, PairBlock(hashers[i].size, u),
                              PairBlock(hashers[i].size, v))
    \/ \E i \in 1..Len(hashers), u \in Nibble, v \in Nibble :
          /\ HasherCalled /\ u < v
          /\ Mirror256Process(i, PairBlock(hashers[i].size, u),
                              PairBlock(hashers[i].size, v))

SpecNetwork == Init /\ [][NextNetwork]_vars

(***************************************************************************)
(* Properties.                                                             *)
(***************************************************************************)
Hs == 1..Len(hashers)

\* the digest of a fresh hasher of h's depth and size that starts from the
\* schedule sched and is fed text in one update call
OneCallDigest(h, sched, text) ==
    digest(update(NewHasher(h.depth, h.size), sched, Str(text)).h)

\* C1: a hasher built without a message and then fed A and B by two update
\* calls has the digest of a hasher that starts from the same schedule and is
\* fed A+B in one call.
C1_IncrementalEquivalence ==
    \A i \in Hs :
        (hist[i].m0 = None /\ Len(hist[i].fed) = 2)
        => digest(hashers[i])
             = OneCallDigest(hashers[i], hist[i].sched0,
                             hist[i].fed[1] \o hist[i].fed[2])

\* C2: a hasher that was given no message, or only empty text, exposes the
\* digest of the all-padding chunk (32 times 'A') under its initial schedule.
C2_EmptyInputDigest ==
    \A i \in Hs :
        hashers[i].counter = 0
        => digest(hashers[i])
             = pack(mirror256_process(Rep(PadByte, ChunkLen), hist[i].sched0,
                                      hashers[i].depth, hashers[i].size),
                    hashers[i].size)

\* C3: a call (constructor or update) whose message argument is not text
\* raises TypeError and leaves every hasher as it was.
C3_TypeRejection ==
    [][call'.arg.kind = "other" => (call'.raised /\ hashers' = hashers)]_vars

\* the arguments a hasher was constructed with
SameConstruction(i, j) ==
    /\ hashers[i].depth = hashers[j].depth
    /\ hashers[i].size = hashers[j].size
    /\ hist[i].std = hist[j].std
    /\ hist[i].m0 = hist[j].m0

C5_CrossInstanceIsolation ==
    [][\A i \in 1..Len(hashers') :
          (call'.target = i /\ hist'[i].pushes > (IF i \in Hs THEN hist[i].pushes ELSE 0))
          => /\ hashers'[i].own
             /\ class_last_hashes'
                  = IF i \in Hs THEN class_last_hashes
                    ELSE InitState(class_last_hashes, hashers'[i].depth,
                                   hashers'[i].size, hist'[i].std)
             /\ \A j \in Hs \ {i} :
                   /\ hashers'[j] = hashers[j]
                   /\ KeySchedule(hashers'[j], class_last_hashes')
                        = KeySchedule(hashers[j], class_last_hashes)
                   /\ Len(KeySchedule(hashers'[j], class_last_hashes'))
                        = hashers[j].depth
    ]_vars

\* C5 witness: hasher 1 has just pushed in an update call while hasher 2
\* still reads the class variable.
C5_Witness ==
    /\ Len(hashers) = 2
    /\ call.op = "update" /\ call.target = 1
    /\ hist[1].pushes > 0 /\ hashers[1].own
    /\ ~hashers[2].own
    /\ hashers[1].last_hashes # class_last_hashes

\* the consecutive 32-byte slices of bytes, the last one padded with 'A'
RECURSIVE ByteSlices(_)
ByteSlices(bytes) ==
    IF bytes = << >> THEN << >>
    ELSE IF Len(bytes) <= ChunkLen
    THEN << bytes \o [k \in 1..(ChunkLen - Len(bytes)) |-> PadByte] >>
    ELSE << SubSeq(bytes, 1, ChunkLen) >>
         \o ByteSlices(SubSeq(bytes, ChunkLen + 1, Len(bytes)))

\* C6: the chunks processed for a text message given in one call are the
\* consecutive 32-byte slices of its UTF-8 encoding, the last padded with 'A'.
C6_ChunksAreByteSlices ==
    \A i \in Hs :
        (Len(hist[i].fed) = 1 /\ hist[i].fed[1] # << >>)
        => hist[i].chunks = ByteSlices(Utf8(hist[i].fed[1]))

\* C7: digest() has size/8 bytes and hexdigest() is "0x" followed by size/4
\* hexadecimal characters, for every hasher in every state.
C7_FixedOutputLength ==
    \A i \in Hs :
        /\ Len(digest(hashers[i])) = hashers[i].size \div 8
        /\ Len(hexdigest(hashers[i])) = 2 + (hashers[i].size \div 4)
        /\ SubSeq(hexdigest(hashers[i]), 1, 2) = << "0", "x" >>
        /\ \A k \in 3..Len(hexdigest(hashers[i])) :
              \E c \in 1..16 : hexdigest(hashers[i])[k] = HexChars[c]

\* C7 witness: a hasher of the default size that consumed more than one
\* chunk and reports 32 bytes and 66 characters.
C7_Witness ==
    \E i \in Hs :
        /\ hashers[i].size = DEFAULT_SIZE
        /\ hashers[i].counter > ChunkLen
        /\ hashers[i].hashed # << >>
        /\ Len(digest(hashers[i])) = 32
        /\ Len(hexdigest(hashers[i])) = 66

\* C8: after a call that passed text to update, the digest block is the
\* result of processing the pending remainder, padded, under the schedule the
\* hasher then has.
C8_DigestIsOfRemainder ==
    (call.target # 0 /\ call.arg.kind = "str")
    => LET h == hashers[call.target]
       IN  h.hashed = mirror256_process(Padded(h.buffer),
                                        LastHashes(h, class_last_hashes),
                                        h.depth, h.size)

\* C9: the schedule a hasher starts from is the one its own depth, size and
\* mode give: the seed-777 random schedule for random initialisation, the
\* prime-cubic-root schedule for standard initialisation.
C9_InitialScheduleIsOwn ==
    \A i \in Hs :
        hist[i].sched0
          = IF hist[i].std
            THEN init_standard_state(<< >>, hashers[i].depth, hashers[i].size)
            ELSE init_random_state(<< >>, hashers[i].depth, hashers[i].size)

\* the pushes made equal the full chunks in the text given so far, less than
\* a chunk is pending, and a list a hasher pushed on has at most depth entries
C10_PushCount ==
    \A i \in Hs :
        /\ hist[i].pushes = hashers[i].counter \div ChunkLen
        /\ Len(hashers[i].buffer) = hashers[i].counter % ChunkLen
        /\ hashers[i].own <=> hist[i].pushes > 0
        /\ hashers[i].own => Len(hashers[i].last_hashes) <= hashers[i].depth

\* a call changes a hasher's key schedule only by the pushes it makes: none
\* leaves it as it was (also when a padded remainder is processed), one puts
\* the result of the full chunk at entry 0 and moves the others down
C10_ScheduleStep ==
    \A i \in Hs :
        LET old == KeySchedule(hashers[i], class_last_hashes)
            new == KeySchedule(hashers'[i], class_last_hashes')
            k == hist'[i].pushes - hist[i].pushes
            h == hashers[i]
        IN  /\ k = 0 => new = old
            /\ k > 0 => (call'.op = "update" /\ call'.target = i
                         /\ call'.arg.kind = "str")
            /\ k = 1 =>
                 /\ new[1] = mirror256_process(
                                 SubSeq(h.buffer \o call'.arg.s, 1, ChunkLen),
                                 old, h.depth, h.size)
                 /\ Len(new) = h.depth
                 /\ \A e \in 2..Len(new) : new[e] = old[e - 1]

C11_GateIsItsOwnInverse ==
    call.op = "apply_gate" => call.back = call.block

\* C11 for one layer pass and for the full depth-layer pass under the
\* hasher's key schedule: distinct Blocks have distinct results
C11_PassIsInjective ==
    call.op \in {"hash_layer_pass", "mirror256_process"}
    => (call.x # call.y => call.fx # call.fy)

\* C11: for a fixed key schedule chunk processing is a bijection on Blocks:
\* each of the four gate variants applied at its wire triple is its own
\* inverse, and one layer pass and the full depth-layer pass map distinct
\* Blocks to distinct Blocks.
C11_Reversibility ==
    C11_GateIsItsOwnInverse /\ C11_PassIsInjective

\* the same for hashers whose wires all lie inside a Block (size up to 4
\* bits for each of the 64 nibbles _unpack returns)
C11_ReversibleInsideBlock ==
    (call.op \in {"apply_gate", "hash_layer_pass", "mirror256_process"}
     /\ hashers[call.target].size <= 4 * Len(PaddingBlock))
    => C11_Reversibility

\* a gate that changed its Block, applied again under a size inside the Block
C11_GateFired ==
    /\ call.op = "apply_gate" /\ call.out # call.block
    /\ hashers[call.target].size <= 4 * Len(PaddingBlock)

\* two distinct Blocks through every layer of a pushed key schedule of the
\* default size
C11_ProcessProbed ==
    /\ call.op = "mirror256_process" /\ call.x # call.y
    /\ hashers[call.target].size = DEFAULT_SIZE
    /\ hashers[call.target].own

====
